---------------------------- MODULE Spec2Model ----------------------------
(***************************************************************************)
(* Model of the emergency-assistance repository.                           *)
(*                                                                         *)
(*   ai_emergency_assistance.py  EmergencyAssistantAI: rule-based triage,  *)
(*                               hospital ranking, alert and notification  *)
(*   mainagent.py                run_emergency_protocol: the same steps    *)
(*                               delegated to an LLM chat session          *)
(*                                                                         *)
(* Text is a sequence of one-character strings, so that lower() and the    *)
(* substring test "x in description" are computed character by character.  *)
(* A float is the triple <<e, hi, lo>> of an IEEE-754 double               *)
(* (hi * 2^27 + lo) * 2^e with a 53-bit significand, so that scores are    *)
(* rounded and compared as Python rounds and compares them.                *)
(***************************************************************************)
EXTENDS Integers, Sequences, FiniteSets

VARIABLES
    pc,                    \* position of the running entry point
    PRESELECTED_HOSPITALS, \* Config.PRESELECTED_HOSPITALS, hospitals by position
    voice_input,           \* execute_emergency_protocol: voice_input
    auto_detected,         \* execute_emergency_protocol: auto_detected
    current_symptoms,      \* self.current_symptoms
    symptom_severity,      \* self.symptom_severity
    idx,                   \* hospitals of the list already visited by the loop
    availability,          \* _select_optimal_hospital: availability
    traffic,               \* _select_optimal_hospital: traffic
    travel_time,           \* _select_optimal_hospital: travel_time
    wait_time,             \* _select_optimal_hospital: wait_time
    ranked_hospitals,      \* _select_optimal_hospital: ranked_hospitals
    best_hospital,         \* execute_emergency_protocol: best_hospital (0 is None)
    notified,              \* contacts of the list already visited by _notify_contacts
    calls,                 \* collaborator calls made so far, in order
    exception,             \* the exception that left the entry point, "none" if none
    reports,               \* history: what each hospital visited so far reported
    result                 \* run_emergency_protocol: returned status, "none" before

vars ==
    <<pc, PRESELECTED_HOSPITALS, voice_input, auto_detected, current_symptoms,
      symptom_severity, idx, availability, traffic, travel_time, wait_time,
      ranked_hospitals, best_hospital, notified, calls, exception, reports, result>>

(***************************************************************************)
(* Bounds                                                                  *)
(***************************************************************************)
MaxHospitals ==
    2

(***************************************************************************)
(* Text                                                                    *)
(***************************************************************************)
UpperLetters ==
    <<"A", "B", "C", "D", "E", "F", "G", "H", "I", "J", "K", "L", "M", "N",
      "O", "P", "Q", "R", "S", "T", "U", "V", "W", "X", "Y", "Z">>

LowerLetters ==
    <<"a", "b", "c", "d", "e", "f", "g", "h", "i", "j", "k", "l", "m", "n",
      "o", "p", "q", "r", "s", "t", "u", "v", "w", "x", "y", "z">>

LowerChar(c) ==
    IF \E k \in 1..Len(UpperLetters) : UpperLetters[k] = c
    THEN LowerLetters[CHOOSE k \in 1..Len(UpperLetters) : UpperLetters[k] = c]
    ELSE c

UpperChar(c) ==
    IF \E k \in 1..Len(LowerLetters) : LowerLetters[k] = c
    THEN UpperLetters[CHOOSE k \in 1..Len(LowerLetters) : LowerLetters[k] = c]
    ELSE c

\* str.lower()
Lower(s) ==
    [k \in 1..Len(s) |-> LowerChar(s[k])]

\* str.upper(), used to build the inputs
Upper(s) ==
    [k \in 1..Len(s) |-> UpperChar(s[k])]

\* "sub in s" of Python, for a non-empty sub
Contains(s, sub) ==
    \E k \in 1..(Len(s) - Len(sub) + 1) : SubSeq(s, k, k + Len(sub) - 1) = sub

KwChestPain ==
    <<"c", "h", "e", "s", "t", " ", "p", "a", "i", "n">>

KwArm ==
    <<"a", "r", "m">>

KwLeft ==
    <<"l", "e", "f", "t">>

KwBreathing ==
    <<"d", "i", "f", "f", "i", "c", "u", "l", "t", "y", " ", "b", "r", "e",
      "a", "t", "h", "i", "n", "g">>

SummaryChest ==
    <<"S", "e", "v", "e", "r", "e", " ", "c", "h", "e", "s", "t", " ", "p",
      "a", "i", "n", ",", " ", "a", "r", "m", " ", "n", "u", "m", "b", "n",
      "e", "s", "s">>

SummaryBreathing ==
    <<"D", "i", "f", "f", "i", "c", "u", "l", "t", "y", " ", "b", "r", "e",
      "a", "t", "h", "i", "n", "g">>

\* The sentence _listen_for_voice_command returns.
StubVoiceCommand ==
    <<"I", " ", "f", "e", "e", "l", " ", "a", " ", "s", "h", "a", "r", "p",
      " ", "p", "a", "i", "n", " ", "i", "n", " ", "m", "y", " ", "c", "h",
      "e", "s", "t", " ", "a", "n", "d", " ", "m", "y", " ", "a", "r", "m",
      " ", "i", "s", " ", "n", "u", "m", "b", ".">>

DescChestLeft ==
    <<"C", "h", "e", "s", "t", " ", "p", "a", "i", "n", ",", " ", "l", "e",
      "f", "t", " ", "s", "i", "d", "e">>

DescChestArm ==
    <<"c", "h", "e", "s", "t", " ", "p", "a", "i", "n", " ", "i", "n", " ",
      "m", "y", " ", "A", "r", "m">>

DescChestOnly ==
    <<"C", "h", "e", "s", "t", " ", "P", "a", "i", "n">>

DescBreathing ==
    <<"D", "i", "f", "f", "i", "c", "u", "l", "t", "y", " ", "B", "r", "e",
      "a", "t", "h", "i", "n", "g">>

DescBoth ==
    <<"d", "i", "f", "f", "i", "c", "u", "l", "t", "y", " ", "b", "r", "e",
      "a", "t", "h", "i", "n", "g", ",", " ", "c", "h", "e", "s", "t", " ",
      "p", "a", "i", "n", ",", " ", "a", "r", "m">>

BaseDescriptions ==
    {<<>>, StubVoiceCommand, DescChestLeft, DescChestArm, DescChestOnly,
     DescBreathing, DescBoth}

\* What the speech-to-text step may hand to the protocol: each description as
\* written, in upper case and in lower case.
VoiceInputs ==
    BaseDescriptions \cup {Upper(d) : d \in BaseDescriptions}
        \cup {Lower(d) : d \in BaseDescriptions}

(***************************************************************************)
(* Symptom triage                                                          *)
(***************************************************************************)
\* A variant that matches the keywords against the text as given.
_analyze_symptoms_no_lower(description) ==
    IF Contains(description, KwChestPain)
       /\ (Contains(description, KwArm) \/ Contains(description, KwLeft))
    THEN <<SummaryChest, "critical">>
    ELSE IF Contains(description, KwBreathing)
         THEN <<SummaryBreathing, "critical">>
         ELSE <<Lower(description), "moderate">>

\* description = description.lower(), then the two keyword rules in order
_analyze_symptoms(description) ==
    LET d == Lower(description)
    IN  IF Contains(d, KwChestPain) /\ (Contains(d, KwArm) \/ Contains(d, KwLeft))
        THEN <<SummaryChest, "critical">>
        ELSE IF Contains(d, KwBreathing)
             THEN <<SummaryBreathing, "critical">>
             ELSE <<d, "moderate">>

(***************************************************************************)
(* Python float arithmetic (IEEE-754 binary64, round to nearest, ties to   *)
(* even) on positive values.  Inside an operation a significand is a       *)
(* sequence of bits, least significant first.                              *)
(***************************************************************************)
Zeros(n) ==
    [k \in 1..(IF n > 0 THEN n ELSE 0) |-> 0]

RECURSIVE BitsVal(_)
BitsVal(bits) ==
    IF bits = <<>> THEN 0 ELSE Head(bits) + 2 * BitsVal(Tail(bits))

NatBits(n, width) ==
    [k \in 1..width |-> (n \div 2^(k - 1)) % 2]

\* bits without its leading (high) zeros
StripHigh(bits) ==
    SubSeq(bits, 1, Cardinality({k \in 1..Len(bits) : \E j \in k..Len(bits) : bits[j] = 1}))

\* Sums and products go through 14-bit limbs, so that every partial result
\* stays below 2^31.
Limb(bits, i) ==
    BitsVal(SubSeq(bits \o Zeros(14 * i - Len(bits)), 14 * i - 13, 14 * i))

LimbsToBits(limbs) ==
    [k \in 1..(14 * Len(limbs)) |-> (limbs[((k - 1) \div 14) + 1] \div 2^((k - 1) % 14)) % 2]

RECURSIVE CarryLimbs(_, _)
CarryLimbs(cols, carry) ==
    IF cols = <<>>
    THEN <<carry>>
    ELSE LET s == Head(cols) + carry
         IN  <<s % 16384>> \o CarryLimbs(Tail(cols), s \div 16384)

\* a + b, for a and b of at most 112 bits
AddBits(a, b) ==
    LimbsToBits(CarryLimbs([i \in 1..8 |-> Limb(a, i) + Limb(b, i)], 0))

LimbColumn(a, b, k) ==
    LET term(i) == IF k + 1 - i \in 1..4 THEN Limb(a, i) * Limb(b, k + 1 - i) ELSE 0
    IN  term(1) + term(2) + term(3) + term(4)

\* a * b, for a and b of at most 56 bits
MulBits(a, b) ==
    LimbsToBits(CarryLimbs([k \in 1..7 |-> LimbColumn(a, b, k)], 0))

\* The double nearest to bits * 2^e (+ a non-zero tail below the last bit when
\* sticky), as <<exponent, high 26 bits, low 27 bits>> of its significand.
RoundToDouble(bits, e, sticky) ==
    LET b == StripHigh(bits)
        L == Len(b)
    IN  IF L <= 53
        THEN LET m == Zeros(53 - L) \o b
             IN  <<e - (53 - L), BitsVal(SubSeq(m, 28, 53)), BitsVal(SubSeq(m, 1, 27))>>
        ELSE LET d    == L - 53
                 kept == SubSeq(b, d + 1, L)
                 half == b[d] = 1
                 tail == sticky \/ \E k \in 1..(d - 1) : b[k] = 1
                 up   == half /\ (tail \/ kept[1] = 1)
                 inc  == IF up THEN StripHigh(AddBits(kept, <<1>>)) ELSE kept
                 m    == IF Len(inc) = 54 THEN SubSeq(inc, 2, 54) ELSE inc
                 ex   == IF Len(inc) = 54 THEN e + d + 1 ELSE e + d
             IN  <<ex, BitsVal(SubSeq(m, 28, 53)), BitsVal(SubSeq(m, 1, 27))>>

Significand(x) ==
    NatBits(x[3], 27) \o NatBits(x[2], 26)

\* The next n 14-bit limbs of the binary expansion of rem / b (rem < b < 2^17),
\* most significant first, followed by the remainder left.
RECURSIVE QuotientLimbs(_, _, _)
QuotientLimbs(rem, b, n) ==
    IF n = 0
    THEN <<rem>>
    ELSE <<(rem * 16384) \div b>> \o QuotientLimbs((rem * 16384) % b, b, n - 1)

\* a / b of two ints, 0 < a <= b < 2^17: Python's true division.
FDiv(a, b) ==
    LET k    == CHOOSE k \in 0..17 : a * 2^k >= b /\ \A j \in 0..(k - 1) : a * 2^j < b
        q    == QuotientLimbs(a * 2^k - b, b, 4)
        bits == LimbsToBits(<<q[4], q[3], q[2], q[1]>>) \o <<1>>
    IN  RoundToDouble(bits, 0 - 56 - k, q[5] # 0)

FMul(x, y) ==
    RoundToDouble(MulBits(Significand(x), Significand(y)), x[1] + y[1], FALSE)

FAdd(x, y) ==
    LET e == IF x[1] < y[1] THEN x[1] ELSE y[1]
    IN  RoundToDouble(AddBits(Zeros(x[1] - e) \o Significand(x),
                              Zeros(y[1] - e) \o Significand(y)), e, FALSE)

\* x < y on positive doubles
FLess(x, y) ==
    \/ x[1] < y[1]
    \/ x[1] = y[1] /\ x[2] < y[2]
    \/ x[1] = y[1] /\ x[2] = y[2] /\ x[3] < y[3]


(***************************************************************************)
(* Configuration and collaborators                                         *)
(***************************************************************************)
\* Config.EMERGENCY_CONTACTS; a call to the notifier names a contact by position.
EMERGENCY_CONTACTS ==
    <<"Family Member", "Close Friend">>

\* The hospital lists Config.PRESELECTED_HOSPITALS may hold, hospitals named by
\* position (the shipped list has two).
HospitalLists ==
    {[k \in 1..n |-> k] : n \in 0..MaxHospitals}

\* Minutes an availability report may carry (the stub draws 5..60; 0 is the
\* least value the report type allows).
WaitTimes ==
    {0, 10, 12, 40}

\* Minutes a traffic report may carry: int(distance * uniform(2, 5)) >= 0.
TravelTimes ==
    {0, 5, 8, 10}

\* HospitalAvailability values _check_hospital_availability may return.
AvailabilityReports ==
    [available : BOOLEAN, wait_time : WaitTimes]

\* TrafficAnalysis values _analyze_traffic may return (distance_km is never read).
TrafficReports ==
    [travel_time : TravelTimes]

\* A collaborator call: what was called, for which hospital or contact (0 when
\* for none), and whether it returned (ok) or raised.
Call(op, arg, ok) ==
    [op |-> op, arg |-> arg, ok |-> ok]

(***************************************************************************)
(* Hospital selection                                                      *)
(***************************************************************************)
\* A variant that ranks a hospital whatever it reported.
IsCandidateAlways(av) ==
    TRUE

\* "if availability.available:"
IsCandidate(av) ==
    av.available

\* A variant that leaves a zero in place.
ClampNone(x) ==
    x

\* "if travel_time == 0: travel_time = 1", "if wait_time == 0: wait_time = 1"
Clamp(x) ==
    IF x = 0 THEN 1 ELSE x

\* 0.7 * (1 / travel_time) + 0.3 * (1 / wait_time)
Score(tt, wt) ==
    FAdd(FMul(FDiv(7, 10), FDiv(1, tt)), FMul(FDiv(3, 10), FDiv(1, wt)))

ClampedTravelTimes ==
    {Clamp(t) : t \in TravelTimes}

ClampedWaitTimes ==
    {Clamp(w) : w \in WaitTimes}

\* Score on the denominators the reports can produce, tabulated once: rows by
\* travel time, columns by wait time (appending <<>> makes each row a tuple of
\* computed values).
ScoreTable ==
    [t \in 1..(CHOOSE m \in ClampedTravelTimes : \A x \in ClampedTravelTimes : x <= m) |->
        [w \in 1..(CHOOSE m \in ClampedWaitTimes : \A x \in ClampedWaitTimes : x <= m) |->
            IF t \in ClampedTravelTimes /\ w \in ClampedWaitTimes
            THEN Score(t, w)
            ELSE <<0, 0, 0>>] \o <<>>] \o <<>>

ScoreOf(tt, wt) ==
    ScoreTable[tt][wt]

\* An unstable variant: x goes before the entries of equal score.
InsertUnstable(sorted, x) ==
    LET k == Cardinality({j \in 1..Len(sorted) : FLess(x.score, sorted[j].score)})
    IN  SubSeq(sorted, 1, k) \o <<x>> \o SubSeq(sorted, k + 1, Len(sorted))

\* Where sorted(..., reverse=True) puts x among the already sorted entries: after
\* every entry that does not compare below it (the sort is stable).
InsertByScore(sorted, x) ==
    LET k == Cardinality({j \in 1..Len(sorted) : ~FLess(sorted[j].score, x.score)})
    IN  SubSeq(sorted, 1, k) \o <<x>> \o SubSeq(sorted, k + 1, Len(sorted))

\* sorted(ranked_hospitals, key=lambda x: x['score'], reverse=True)
RECURSIVE SortedByScore(_)
SortedByScore(ranked) ==
    IF ranked = <<>>
    THEN <<>>
    ELSE InsertByScore(SortedByScore(SubSeq(ranked, 1, Len(ranked) - 1)),
                       ranked[Len(ranked)])


\* What _select_optimal_hospital returns after the loop (0 is None).
SelectedHospital(ranked) ==
    IF ranked = <<>> THEN 0 ELSE SortedByScore(ranked)[1].hospital

(***************************************************************************)
(* EmergencyAssistantAI.execute_emergency_protocol                         *)
(***************************************************************************)
NoReportYet ==
    [available |-> FALSE, wait_time |-> 0]

NoTrafficYet ==
    [travel_time |-> 0]

\* The state after __init__ (and before either entry point has run).
Init ==
    /\ pc = "start"
    /\ PRESELECTED_HOSPITALS \in HospitalLists
    /\ voice_input = <<>>
    /\ auto_detected = FALSE
    /\ current_symptoms = <<>>
    /\ symptom_severity = "unknown"
    /\ idx = 0
    /\ availability = NoReportYet
    /\ traffic = NoTrafficYet
    /\ travel_time = 0
    /\ wait_time = 0
    /\ ranked_hospitals = <<>>
    /\ best_hospital = 0
    /\ notified = 0
    /\ calls = <<>>
    /\ exception = "none"
    /\ reports = <<>>
    /\ result = "none"

\* Step 1: voice_input = _listen_for_voice_command();
\*         auto_detected = _detect_emergency_trigger()
DetectEmergency ==
    /\ pc = "start"
    /\ \E v \in VoiceInputs, a \in BOOLEAN :
          /\ voice_input' = v
          /\ auto_detected' = a
    /\ pc' = "detected"
    /\ UNCHANGED <<PRESELECTED_HOSPITALS, current_symptoms, symptom_severity, idx,
                   availability, traffic, travel_time, wait_time, ranked_hospitals,
                   best_hospital, notified, calls, exception, reports, result>>

\* "if not voice_input and not auto_detected: return"
NoEmergencyDetected ==
    /\ pc = "detected"
    /\ voice_input = <<>> /\ ~auto_detected
    /\ pc' = "no_emergency"
    /\ UNCHANGED <<PRESELECTED_HOSPITALS, voice_input, auto_detected, current_symptoms,
                   symptom_severity, idx, availability, traffic, travel_time, wait_time,
                   ranked_hospitals, best_hospital, notified, calls, exception, reports, result>>

\* Step 2: self.current_symptoms, self.symptom_severity = _analyze_symptoms(voice_input)
AnalyzeSymptoms ==
    /\ pc = "detected"
    /\ ~(voice_input = <<>> /\ ~auto_detected)
    /\ current_symptoms' = _analyze_symptoms(voice_input)[1]
    /\ symptom_severity' = _analyze_symptoms(voice_input)[2]
    /\ pc' = "analyzed"
    /\ UNCHANGED <<PRESELECTED_HOSPITALS, voice_input, auto_detected, idx, availability,
                   traffic, travel_time, wait_time, ranked_hospitals, best_hospital,
                   notified, calls, exception, reports, result>>

\* A variant without the shortcut: a critical case goes on to hospital selection.
CriticalShortcutMissing ==
    /\ pc = "analyzed"
    /\ symptom_severity = "critical"
    /\ ranked_hospitals' = <<>>
    /\ idx' = 0
    /\ pc' = "select"
    /\ UNCHANGED <<PRESELECTED_HOSPITALS, voice_input, auto_detected, current_symptoms,
                   symptom_severity, availability, traffic, travel_time, wait_time,
                   best_hospital, notified, calls, exception, reports, result>>

\* Step 3: "if self.symptom_severity == 'critical': self._notify_contacts(); return"
CriticalShortcut ==
    /\ pc = "analyzed"
    /\ symptom_severity = "critical"
    /\ pc' = "notify"
    /\ UNCHANGED <<PRESELECTED_HOSPITALS, voice_input, auto_detected, current_symptoms,
                   symptom_severity, idx, availability, traffic, travel_time, wait_time,
                   ranked_hospitals, best_hospital, notified, calls, exception, reports, result>>

\* Step 4: enter _select_optimal_hospital: ranked_hospitals = []
StartSelection ==
    /\ pc = "analyzed"
    /\ symptom_severity # "critical"
    /\ ranked_hospitals' = <<>>
    /\ idx' = 0
    /\ pc' = "select"
    /\ UNCHANGED <<PRESELECTED_HOSPITALS, voice_input, auto_detected, current_symptoms,
                   symptom_severity, availability, traffic, travel_time, wait_time,
                   best_hospital, notified, calls, exception, reports, result>>

\* One pass of "for hospital in Config.PRESELECTED_HOSPITALS" in which both
\* lookups return.  reports records the raw figures of a hospital that reported
\* available (they are not read when it did not).
SelectIteration ==
    /\ pc = "select"
    /\ idx < Len(PRESELECTED_HOSPITALS)
    /\ \E av \in AvailabilityReports, tr \in TrafficReports :
          LET hospital == PRESELECTED_HOSPITALS[idx + 1]
              tt       == Clamp(tr.travel_time)
              wt       == Clamp(av.wait_time)
          IN  /\ availability' = av
              /\ traffic' = tr
              /\ calls' = calls \o <<Call("availability", hospital, TRUE),
                                     Call("traffic", hospital, TRUE)>>
              /\ IF IsCandidate(av)
                 THEN /\ travel_time' = tt
                      /\ wait_time' = wt
                      /\ reports' = Append(reports,
                                           [hospital |-> hospital,
                                            available |-> av.available,
                                            travel_time |-> tr.travel_time,
                                            wait_time |-> av.wait_time])
                      /\ IF tt = 0 \/ wt = 0
                         THEN /\ exception' = "ZeroDivisionError"
                              /\ pc' = "raised"
                              /\ UNCHANGED <<ranked_hospitals, idx>>
                         ELSE /\ ranked_hospitals' =
                                    Append(ranked_hospitals,
                                           [hospital |-> hospital, travel_time |-> tt,
                                            score |-> ScoreOf(tt, wt)])
                              /\ idx' = idx + 1
                              /\ UNCHANGED <<pc, exception>>
                 ELSE /\ idx' = idx + 1
                      /\ reports' = Append(reports,
                                           [hospital |-> hospital,
                                            available |-> av.available,
                                            travel_time |-> 0, wait_time |-> 0])
                      /\ UNCHANGED <<travel_time, wait_time, ranked_hospitals, pc,
                                     exception>>
    /\ UNCHANGED <<PRESELECTED_HOSPITALS, voice_input, auto_detected, current_symptoms,
                   symptom_severity, best_hospital, notified, result>>

\* One pass of the loop in which _analyze_traffic raises: hospital.coordinates or
\* self.patient_coordinates lacks 'lat'/'lon' (KeyError), or a coordinate is NaN
\* or infinite (int() raises ValueError / OverflowError).  Nothing on the way up
\* catches it, so it leaves execute_emergency_protocol.
SelectLookupRaises ==
    /\ pc = "select"
    /\ idx < Len(PRESELECTED_HOSPITALS)
    /\ \E av \in AvailabilityReports :
          /\ availability' = av
          /\ calls' = calls \o
                       <<Call("availability", PRESELECTED_HOSPITALS[idx + 1], TRUE),
                         Call("traffic", PRESELECTED_HOSPITALS[idx + 1], FALSE)>>
    /\ exception' = "LookupError"
    /\ pc' = "raised"
    /\ UNCHANGED <<PRESELECTED_HOSPITALS, voice_input, auto_detected, current_symptoms,
                   symptom_severity, idx, traffic, travel_time, wait_time,
                   ranked_hospitals, best_hospital, notified, reports, result>>

\* "if not ranked_hospitals: return None";
\* "return sorted(ranked_hospitals, key=score, reverse=True)[0]['hospital']"
SelectReturn ==
    /\ pc = "select"
    /\ idx = Len(PRESELECTED_HOSPITALS)
    /\ best_hospital' = SelectedHospital(ranked_hospitals)
    /\ pc' = "selected"
    /\ UNCHANGED <<PRESELECTED_HOSPITALS, voice_input, auto_detected, current_symptoms,
                   symptom_severity, idx, availability, traffic, travel_time, wait_time,
                   ranked_hospitals, notified, calls, exception, reports, result>>

\* "if not best_hospital: self._notify_contacts(); return"
NoHospitalFound ==
    /\ pc = "selected"
    /\ best_hospital = 0
    /\ pc' = "notify"
    /\ UNCHANGED <<PRESELECTED_HOSPITALS, voice_input, auto_detected, current_symptoms,
                   symptom_severity, idx, availability, traffic, travel_time, wait_time,
                   ranked_hospitals, best_hospital, notified, calls, exception, reports, result>>

\* A variant that alerts the first hospital of the list.
SendEmergencyAlertToFirst ==
    /\ pc = "selected"
    /\ best_hospital # 0
    /\ calls' = Append(calls, Call("alert", PRESELECTED_HOSPITALS[1], TRUE))
    /\ pc' = "notify"
    /\ UNCHANGED <<PRESELECTED_HOSPITALS, voice_input, auto_detected, current_symptoms,
                   symptom_severity, idx, availability, traffic, travel_time, wait_time,
                   ranked_hospitals, best_hospital, notified, exception, reports, result>>

\* Step 5: self._send_emergency_alert(best_hospital), then _notify_contacts()
SendEmergencyAlert ==
    /\ pc = "selected"
    /\ best_hospital # 0
    /\ calls' = Append(calls, Call("alert", best_hospital, TRUE))
    /\ pc' = "notify"
    /\ UNCHANGED <<PRESELECTED_HOSPITALS, voice_input, auto_detected, current_symptoms,
                   symptom_severity, idx, availability, traffic, travel_time, wait_time,
                   ranked_hospitals, best_hospital, notified, exception, reports, result>>

\* One pass of "for contact in Config.EMERGENCY_CONTACTS" in _notify_contacts
NotifyContact ==
    /\ pc = "notify"
    /\ notified < Len(EMERGENCY_CONTACTS)
    /\ calls' = Append(calls, Call("notify", notified + 1, TRUE))
    /\ notified' = notified + 1
    /\ UNCHANGED <<pc, PRESELECTED_HOSPITALS, voice_input, auto_detected,
                   current_symptoms, symptom_severity, idx, availability, traffic,
                   travel_time, wait_time, ranked_hospitals, best_hospital, exception,
                   reports, result>>

\* _notify_contacts returns, and execute_emergency_protocol after it
ProtocolReturns ==
    /\ pc = "notify"
    /\ notified = Len(EMERGENCY_CONTACTS)
    /\ pc' = "done"
    /\ UNCHANGED <<PRESELECTED_HOSPITALS, voice_input, auto_detected, current_symptoms,
                   symptom_severity, idx, availability, traffic, travel_time, wait_time,
                   ranked_hospitals, best_hospital, notified, calls, exception, reports, result>>

(***************************************************************************)
(* mainagent.run_emergency_protocol                                        *)
(***************************************************************************)
assistant_vars ==
    <<PRESELECTED_HOSPITALS, voice_input, auto_detected, current_symptoms,
      symptom_severity, idx, availability, traffic, travel_time, wait_time,
      ranked_hospitals, best_hospital, notified, reports>>

\* model = genai.GenerativeModel(...), inside the outer try whose handler re-raises
BuildModel ==
    /\ pc = "start"
    /\ \E ok \in BOOLEAN :
          /\ calls' = Append(calls, Call("GenerativeModel", 0, ok))
          /\ pc' = IF ok THEN "llm_chat" ELSE "llm_raised"
          /\ exception' = IF ok THEN exception ELSE "GenerativeModel"
    /\ UNCHANGED <<assistant_vars, result>>

\* chat = model.start_chat(enable_automatic_function_calling=True)
StartChat ==
    /\ pc = "llm_chat"
    /\ \E ok \in BOOLEAN :
          /\ calls' = Append(calls, Call("start_chat", 0, ok))
          /\ pc' = IF ok THEN "llm_prompt" ELSE "llm_raised"
          /\ exception' = IF ok THEN exception ELSE "start_chat"
    /\ UNCHANGED <<assistant_vars, result>>

\* prompt = """...""".format(...) from USER_INFO, and the two banner prints
BuildPrompt ==
    /\ pc = "llm_prompt"
    /\ pc' = "llm_send"
    /\ UNCHANGED <<assistant_vars, calls, exception, result>>

\* A variant without the inner handler: the exception of send_message leaves
\* the function.
SendMessageUnhandled ==
    /\ pc = "llm_send"
    /\ \E ok \in BOOLEAN :
          /\ calls' = Append(calls, Call("send_message", 0, ok))
          /\ pc' = IF ok THEN "llm_read" ELSE "llm_raised"
          /\ exception' = IF ok THEN exception ELSE "send_message"
    /\ UNCHANGED <<assistant_vars, result>>

\* response = chat.send_message(prompt), inside the inner try whose handler
\* returns {"status": "error", ...}
SendMessage ==
    /\ pc = "llm_send"
    /\ \E ok \in BOOLEAN :
          /\ calls' = Append(calls, Call("send_message", 0, ok))
          /\ pc' = IF ok THEN "llm_read" ELSE "llm_returned"
          /\ result' = IF ok THEN result ELSE "error"
    /\ UNCHANGED <<assistant_vars, exception>>

\* ''.join(part.text for part in response.parts), then return "success"
ReadResponse ==
    /\ pc = "llm_read"
    /\ \E ok \in BOOLEAN :
          /\ calls' = Append(calls, Call("read_parts", 0, ok))
          /\ result' = IF ok THEN "success" ELSE "error"
    /\ pc' = "llm_returned"
    /\ UNCHANGED <<assistant_vars, exception>>

Next ==
    \/ DetectEmergency
    \/ NoEmergencyDetected
    \/ AnalyzeSymptoms
    \/ CriticalShortcut
    \/ StartSelection
    \/ SelectIteration
    \/ SelectLookupRaises
    \/ SelectReturn
    \/ NoHospitalFound
    \/ SendEmergencyAlert
    \/ NotifyContact
    \/ ProtocolReturns
    \/ BuildModel
    \/ StartChat
    \/ BuildPrompt
    \/ SendMessage
    \/ ReadResponse

Spec ==
    Init /\ [][Next]_vars


(***************************************************************************)
(* Properties                                                              *)
(***************************************************************************)
CallsOf(op) ==
    {k \in 1..Len(calls) : calls[k].op = op}

\* The contacts notified so far, in the order of the calls.
NotifyArgs ==
    [j \in 1..Cardinality(CallsOf("notify")) |->
        calls[CHOOSE k \in CallsOf("notify") :
                 Cardinality({i \in CallsOf("notify") : i <= k}) = j].arg]

AllContacts ==
    [k \in 1..Len(EMERGENCY_CONTACTS) |-> k]

IsPrefix(s, u) ==
    Len(s) <= Len(u) /\ SubSeq(u, 1, Len(s)) = s

\* The rule-based run has ended: it returned, or an exception left it.
RunEnded ==
    pc \in {"no_emergency", "done", "raised"}

\* C1: every run of execute_emergency_protocol that does not stop at the
\* "No emergency detected" exit has invoked the contact notifier by the time
\* it ends.
C1_NotifiedBeforeRunEnds ==
    (RunEnded /\ pc # "no_emergency") => CallsOf("notify") # {}

\* C2: for the sentence _listen_for_voice_command returns, triage yields
\* critical, hospital selection is skipped, every configured contact is notified
\* exactly once and the alert sink is never called.
C2_StubCommandIsCritical ==
    (voice_input = StubVoiceCommand /\ pc = "done")
        => /\ symptom_severity = "critical"
           /\ CallsOf("availability") = {} /\ CallsOf("traffic") = {}
           /\ CallsOf("alert") = {}
           /\ NotifyArgs = AllContacts

\* C3: once triage has yielded critical, the run makes no availability lookup,
\* no traffic lookup and no alert call; it notifies the configured contacts one
\* by one in list order, each exactly once, and then ends.
C3_CriticalNotifiesOnly ==
    symptom_severity = "critical"
        => /\ pc \in {"analyzed", "notify", "done"}
           /\ CallsOf("notify") = 1..Len(calls)
           /\ IsPrefix(NotifyArgs, AllContacts)
           /\ pc = "done" => NotifyArgs = AllContacts
           /\ pc \in {"analyzed", "notify"} => ENABLED Next

C3_Witness ==
    symptom_severity = "critical" /\ pc = "done" /\ Len(calls) = Len(EMERGENCY_CONTACTS)

(***************************************************************************)
(* Hospital selection, stated on what the hospitals reported.              *)
(***************************************************************************)
SelectionReturned ==
    pc \in {"selected", "notify", "done"} /\ symptom_severity # "critical"

AvailableReports ==
    {k \in 1..Len(reports) : reports[k].available}

\* 0.7*(1/travel_time) + 0.3*(1/wait_time) of report k, zeros taken as ones
ReportScore(k) ==
    ScoreOf(IF reports[k].travel_time = 0 THEN 1 ELSE reports[k].travel_time,
            IF reports[k].wait_time = 0 THEN 1 ELSE reports[k].wait_time)

\* C4: when some hospital reported available, the hospital returned is one that
\* reported available, no available hospital scores higher, and every
\* available hospital before it in the list scores strictly lower.
C4_BestIsFirstMaximum ==
    (SelectionReturned /\ AvailableReports # {})
        => \E k \in AvailableReports :
              /\ best_hospital = PRESELECTED_HOSPITALS[k]
              /\ \A j \in AvailableReports : ~FLess(ReportScore(k), ReportScore(j))
              /\ \A j \in AvailableReports : j < k => FLess(ReportScore(j), ReportScore(k))

\* A (travel 10, wait 10) listed before B (travel 5, wait 40), both available:
\* B is returned.
C4_Witness ==
    /\ SelectionReturned
    /\ Len(reports) >= 2
    /\ reports[1].available /\ reports[1].travel_time = 10 /\ reports[1].wait_time = 10
    /\ reports[2].available /\ reports[2].travel_time = 5 /\ reports[2].wait_time = 40
    /\ best_hospital = PRESELECTED_HOSPITALS[2]

\* C5: selection returns None when the hospital list is empty or when every
\* hospital in it reported available = false.
C5_NoneWhenNoCandidate ==
    (SelectionReturned /\ AvailableReports = {}) => best_hospital = 0

C5_Witness ==
    /\ SelectionReturned
    /\ Len(PRESELECTED_HOSPITALS) >= 2
    /\ Len(reports) = Len(PRESELECTED_HOSPITALS)
    /\ AvailableReports = {}
    /\ best_hospital = 0

\* C6: a lookup that fails for one hospital only excludes that hospital: the
\* remaining hospitals are still visited and the run does not end before every
\* contact has been notified.
C6_LookupFailureStillNotifies ==
    (RunEnded /\ \E k \in 1..Len(calls) :
                    calls[k].op \in {"availability", "traffic"} /\ ~calls[k].ok)
        => /\ idx = Len(PRESELECTED_HOSPITALS)
           /\ NotifyArgs = AllContacts

(***************************************************************************)
(* Triage                                                                  *)
(***************************************************************************)
Rule1(text) ==
    Contains(text, KwChestPain) /\ (Contains(text, KwArm) \/ Contains(text, KwLeft))

Rule2(text) ==
    Contains(text, KwBreathing)

\* The outcome of the ordered rule list on an already lower-cased text.
RuleList(text) ==
    CASE Rule1(text) -> <<SummaryChest, "critical">>
      [] ~Rule1(text) /\ Rule2(text) -> <<SummaryBreathing, "critical">>
      [] OTHER -> <<text, "moderate">>

\* C7: whatever the case of its letters, a description is triaged by the first
\* rule of the ordered list that its lower-cased text matches, and its
\* upper-case and lower-case variants are triaged alike.
C7_OrderedRulesIgnoreCase ==
    pc = "analyzed"
        => /\ <<current_symptoms, symptom_severity>> = RuleList(Lower(voice_input))
           /\ _analyze_symptoms(Upper(voice_input)) = <<current_symptoms, symptom_severity>>
           /\ _analyze_symptoms(Lower(voice_input)) = <<current_symptoms, symptom_severity>>

\* A description in capitals that matches rule 1 and rule 2 gets rule 1's result.
C7_Witness ==
    /\ pc = "analyzed"
    /\ voice_input = Upper(DescBoth)
    /\ Rule1(Lower(voice_input)) /\ Rule2(Lower(voice_input))
    /\ current_symptoms = SummaryChest
    /\ symptom_severity = "critical"

\* C8: for a hospital that reported available, the denominators of the score
\* are the reported travel and wait time with 0 replaced by 1, so both are at
\* least 1 and no ZeroDivisionError is raised.
C8_DenominatorsAtLeastOne ==
    /\ exception # "ZeroDivisionError"
    /\ (pc = "select" /\ idx > 0 /\ availability.available)
          => /\ travel_time >= 1 /\ wait_time >= 1
             /\ travel_time = IF traffic.travel_time = 0 THEN 1 ELSE traffic.travel_time
             /\ wait_time = IF availability.wait_time = 0 THEN 1 ELSE availability.wait_time
             /\ ranked_hospitals[Len(ranked_hospitals)].travel_time = travel_time

C8_Witness ==
    /\ pc = "select" /\ idx > 0
    /\ availability.available
    /\ traffic.travel_time = 0 /\ availability.wait_time = 0
    /\ travel_time = 1 /\ wait_time = 1

\* C9: the alert sink is called at most once, only in a non-critical run whose
\* selection returned a hospital, for that hospital, and before any contact is
\* notified; when selection returned None no alert is sent and the run ends
\* with every contact notified.
C9_AlertOnceForBestBeforeNotify ==
    /\ Cardinality(CallsOf("alert")) <= 1
    /\ \A k \in CallsOf("alert") :
          /\ SelectionReturned
          /\ best_hospital # 0
          /\ calls[k].arg = best_hospital
          /\ \A j \in CallsOf("notify") : k < j
    /\ (SelectionReturned /\ best_hospital = 0)
          => /\ CallsOf("alert") = {}
             /\ pc # "selected" => IsPrefix(NotifyArgs, AllContacts)
             /\ pc = "done" => NotifyArgs = AllContacts
    /\ (SelectionReturned /\ best_hospital # 0 /\ pc # "selected")
          => CallsOf("alert") # {}

C9_Witness ==
    /\ pc = "done"
    /\ Len(PRESELECTED_HOSPITALS) >= 2
    /\ Cardinality(CallsOf("alert")) = 1
    /\ best_hospital = PRESELECTED_HOSPITALS[2]
    /\ NotifyArgs = AllContacts

(***************************************************************************)
(* mainagent.run_emergency_protocol                                        *)
(***************************************************************************)
Raised(op) ==
    \E k \in CallsOf(op) : ~calls[k].ok

Completed(op) ==
    \E k \in CallsOf(op) : calls[k].ok

\* C10: run_emergency_protocol ends in exactly one of three ways: the exception
\* of GenerativeModel or start_chat is re-raised and nothing is returned; an
\* exception of send_message or of reading the response makes it return status
\* "error" without raising; otherwise it returns status "success".  "success"
\* is returned only after send_message completed.
C10_ThreeOutcomes ==
    /\ pc = "llm_raised"
          => /\ result = "none" /\ exception # "none"
             /\ Raised("GenerativeModel") \/ Raised("start_chat")
    /\ pc = "llm_returned"
          => /\ exception = "none"
             /\ ~Raised("GenerativeModel") /\ ~Raised("start_chat")
             /\ result = "error" <=> (Raised("send_message") \/ Raised("read_parts"))
             /\ result = "success" <=> ~(Raised("send_message") \/ Raised("read_parts"))
    /\ (Raised("GenerativeModel") \/ Raised("start_chat")) => pc = "llm_raised"
    /\ (Raised("send_message") \/ Raised("read_parts"))
          => pc = "llm_returned" /\ result = "error"
    /\ result = "success" => pc = "llm_returned" /\ Completed("send_message")
    /\ pc \in {"llm_chat", "llm_prompt", "llm_send", "llm_read"} => ENABLED Next

C10_Witness ==
    /\ pc = "llm_returned"
    /\ result = "error"
    /\ Completed("send_message") /\ Raised("read_parts")

=============================================================================
